---- MODULE Spec2Model ----
(***************************************************************************)
(* Model of the AWS cost reporting pipeline of cost-tools:                 *)
(*   ReportConfig -> _build_filter_clause / generate_report -> request,    *)
(*   response -> export_to_csv -> rows and CSV file,                       *)
(*   and the try/except block of the command line main.                    *)
(*                                                                         *)
(* Python dicts are insertion-ordered mappings: they are modelled as       *)
(* sequences of <<key, value>> pairs with pairwise distinct keys.  Dicts   *)
(* of the provider's response whose keys may be absent are records with a  *)
(* varying domain; d.get(k) is a domain test.                              *)
(***************************************************************************)
EXTENDS Integers, Sequences, FiniteSets, TLC

VARIABLES
    caller,            \* "cli": aws_cost_tools.cli.main, "api": a library caller of AWSCostReporter
    config,            \* the ReportConfig of this run
    flatten_groups,    \* the flatten_groups argument of export_to_csv
    providerResponse,  \* what get_cost_and_usage answers if it succeeds
    pc,                \* position of the run
    filter_clause,     \* the result of _build_filter_clause
    params,            \* the request passed to get_cost_and_usage
    apiCalls,          \* number of get_cost_and_usage calls issued
    apiFailed,         \* the call raised
    data,              \* the value generate_report returned
    exportCalls,       \* number of export_to_csv calls
    rows,              \* the rows list of export_to_csv
    fileOpened,        \* open(output_file, 'w') was executed
    fileLines,         \* the lines written to the output file
    stdout,            \* messages printed to standard output
    stderr,            \* messages printed to standard error
    exitStatus,        \* -1 while running or returned normally, else the sys.exit status
    args,              \* the parsed command line of main
    parsed             \* what parse_filters(args.filters) returned

vars == <<caller, config, flatten_groups, providerResponse, pc, filter_clause,
          params, apiCalls, apiFailed, data, exportCalls, rows, fileOpened,
          fileLines, stdout, stderr, exitStatus, args, parsed>>

-----------------------------------------------------------------------------
(* Bounds of the explored inputs: the length of linked_account_ids, the    *)
(* entries of filters and of tag_filters, the length of group_by, the      *)
(* buckets of ResultsByTime, the groups of a bucket, the length of a       *)
(* group's key tuple and the metrics of one group or total.                *)

MaxAccounts == 2
MaxFilters == 2
MaxTags == 2
MaxGroupBy == 2
MaxBuckets == 2
MaxGroups == 2
MaxKeys == 2
MaxMetrics == 2

Min(a, b) == IF a < b THEN a ELSE b

Prefix(pool, n) == SubSeq(pool, 1, Min(n, Len(pool)))

Prefixes(pool, n) == { Prefix(pool, l) : l \in 0..n }

(* Sequences of length at most n over the set S *)
SeqsUpTo(S, n) == UNION { [1..l -> S] : l \in 0..n }

-----------------------------------------------------------------------------
(* Optional[List]: None or a list *)

None == [isNone |-> TRUE, items |-> <<>>]

Some(s) == [isNone |-> FALSE, items |-> s]

(* Python truth value of an Optional list or dict: None and empty are false *)
Truthy(x) == ~x.isNone /\ Len(x.items) > 0

-----------------------------------------------------------------------------
(* Enumerations and ReportConfig *)

GroupByValues == <<"SERVICE", "USAGE_TYPE", "REGION">>

FilterDimensionValues ==
    {"SERVICE", "LINKED_ACCOUNT", "REGION", "USAGE_TYPE", "INSTANCE_TYPE", "OPERATION"}

(* A key of ReportConfig.filters: Union[FilterDimension, str] *)
DimKey(name) == [type |-> "FilterDimension", value |-> name]

StrKey(s) == [type |-> "str", value |-> s]

IsFilterDimension(key) == key.type = "FilterDimension"

DefaultMetrics == <<"BlendedCost", "UnblendedCost">>

(* ReportConfig(...) followed by __post_init__: group_by None becomes [] *)
ReportConfig(accounts, group_by, filters, tag_filters) ==
    [ start_date         |-> "2024-01-01",
      end_date           |-> "2024-02-01",
      linked_account_ids |-> accounts,
      granularity        |-> "MONTHLY",
      group_by           |-> IF group_by.isNone THEN <<>> ELSE group_by.items,
      filters            |-> filters,
      tag_filters        |-> tag_filters,
      metrics            |-> DefaultMetrics ]

-----------------------------------------------------------------------------
(* _build_filter_clause *)

NoFilter == [node |-> "None"]

DimensionsPredicate(key, values) ==
    [node |-> "Dimensions", Key |-> key, Values |-> values]

TagsPredicate(key, values) ==
    [node |-> "Tags", Key |-> key, Values |-> values]

AndNode(children) == [node |-> "And", children |-> children]

(* lines 116-122 *)
LinkedAccountFilters(cfg) ==
    IF Truthy(cfg.linked_account_ids)
    THEN << DimensionsPredicate("LINKED_ACCOUNT", cfg.linked_account_ids.items) >>
    ELSE <<>>

(* lines 126-133: the loop body for one entry of config.filters *)
DimensionFilterOf(entry) ==
    IF IsFilterDimension(entry[1])
    THEN << DimensionsPredicate(entry[1].value, entry[2]) >>
    ELSE <<>>

RECURSIVE DimensionFiltersLoop(_)
DimensionFiltersLoop(entries) ==
    IF entries = <<>> THEN <<>>
    ELSE DimensionFilterOf(Head(entries)) \o DimensionFiltersLoop(Tail(entries))

(* lines 125-133 *)
DimensionFilters(cfg) ==
    IF Truthy(cfg.filters) THEN DimensionFiltersLoop(cfg.filters.items) ELSE <<>>

RECURSIVE TagFiltersLoop(_)
TagFiltersLoop(entries) ==
    IF entries = <<>> THEN <<>>
    ELSE << TagsPredicate(Head(entries)[1], Head(entries)[2]) >>
         \o TagFiltersLoop(Tail(entries))

(* lines 136-143 *)
TagFilters(cfg) ==
    IF Truthy(cfg.tag_filters) THEN TagFiltersLoop(cfg.tag_filters.items) ELSE <<>>

(* CombineFilters without the single-predicate case *)
CombineFiltersAlwaysAnd(filters) ==
    IF Len(filters) = 0 THEN NoFilter ELSE AndNode(filters)

(* lines 145-151 *)
CombineFilters(filters) ==
    IF Len(filters) = 0 THEN NoFilter
    ELSE IF Len(filters) = 1 THEN filters[1]
    ELSE AndNode(filters)

BuildFilterClause(cfg) ==
    CombineFilters(LinkedAccountFilters(cfg) \o DimensionFilters(cfg) \o TagFilters(cfg))

-----------------------------------------------------------------------------
(* generate_report: the request *)

RECURSIVE DimensionGroupings(_)
DimensionGroupings(group_by) ==
    IF group_by = <<>> THEN <<>>
    ELSE << [Type |-> "DIMENSION", Key |-> Head(group_by)] >>
         \o DimensionGroupings(Tail(group_by))

RECURSIVE TagGroupingsLoop(_)
TagGroupingsLoop(entries) ==
    IF entries = <<>> THEN <<>>
    ELSE << [Type |-> "TAG", Key |-> Head(entries)[1]] >>
         \o TagGroupingsLoop(Tail(entries))

TagGroupings(cfg) ==
    IF Truthy(cfg.tag_filters) THEN TagGroupingsLoop(cfg.tag_filters.items) ELSE <<>>

(* BuildGroupByClause with the two passes in the other order *)
BuildGroupByClauseTagsFirst(cfg) == TagGroupings(cfg) \o DimensionGroupings(cfg.group_by)

(* lines 80-87 *)
BuildGroupByClause(cfg) == DimensionGroupings(cfg.group_by) \o TagGroupings(cfg)

BaseParams(cfg) ==
    [ TimePeriod  |-> [Start |-> cfg.start_date, End |-> cfg.end_date],
      Granularity |-> cfg.granularity,
      Metrics     |-> cfg.metrics ]

(* lines 102-103 *)
WithGroupBy(p, clause) ==
    IF Len(clause) > 0 THEN p @@ ("GroupBy" :> clause) ELSE p

(* WithFilter without the test of line 105 *)
WithFilterAlways(p, clause) == p @@ ("Filter" :> clause)

(* lines 105-106 *)
WithFilter(p, clause) ==
    IF clause.node # "None" THEN p @@ ("Filter" :> clause) ELSE p

(* lines 93-106 *)
BuildParams(cfg, fclause) ==
    WithFilter(WithGroupBy(BaseParams(cfg), BuildGroupByClause(cfg)), fclause)

-----------------------------------------------------------------------------
(* The provider's response *)

Dates == <<"2024-01-01", "2024-02-01", "2024-03-01", "2024-04-01", "2024-05-01">>

KeyPool == <<"EC2", "RDS", "S3", "Lambda">>

(* Metric name -> metric data, in the order the provider lists them; data   *)
(* may lack Amount or Unit.                                                 *)
MetricPool ==
    << <<"BlendedCost",   [Amount |-> "12.50", Unit |-> "USD"]>>,
       <<"UnblendedCost", [Unit |-> "EUR"]>>,
       <<"UsageQuantity", [Amount |-> "7"]>> >>

TimePeriodOf(i) == [Start |-> Dates[i], End |-> Dates[i + 1]]

(* The key tuple of length k of the j-th group of a bucket *)
KeyTuple(j, k) == [i \in 1..k |-> KeyPool[((i + j - 2) % Len(KeyPool)) + 1]]

(* A group with a key tuple of length k and m metrics; -1 leaves the key out *)
GroupOf(j, k, m) ==
    IF k >= 0 /\ m >= 0
    THEN [Keys |-> KeyTuple(j, k), Metrics |-> Prefix(MetricPool, m)]
    ELSE IF k >= 0 THEN [Keys |-> KeyTuple(j, k)]
    ELSE IF m >= 0 THEN [Metrics |-> Prefix(MetricPool, m)]
    ELSE [Other |-> "x"]

(* Bucket i with g groups of shape (k, m) and a Total of t metrics; -1     *)
(* leaves Groups or Total out of the bucket.                                *)
BucketOf(i, g, k, m, t) ==
    LET groups == [j \in 1..g |-> GroupOf(j, k, m)]
        period == TimePeriodOf(i)
    IN  IF g >= 0 /\ t >= 0
        THEN [TimePeriod |-> period, Groups |-> groups, Total |-> Prefix(MetricPool, t)]
        ELSE IF g >= 0 THEN [TimePeriod |-> period, Groups |-> groups]
        ELSE IF t >= 0 THEN [TimePeriod |-> period, Total |-> Prefix(MetricPool, t)]
        ELSE [TimePeriod |-> period]

(* Metric counts of a Total or a group: key absent, empty, full *)
MetricCounts == {-1, 0, MaxMetrics}

(* Buckets that vary in the number of groups and in their Total; each      *)
(* group has one key and one metric.                                       *)
ShapeBuckets(i) ==
    { BucketOf(i, g, 1, 1, t) : g \in -1..MaxGroups, t \in MetricCounts }

(* Buckets of MaxGroups groups that vary in the shape of the groups *)
DetailBuckets(i) ==
    { BucketOf(i, MaxGroups, k, m, 0) : k \in -1..MaxKeys, m \in MetricCounts }

BucketsOfKind(kind, i) == IF kind = "shape" THEN ShapeBuckets(i) ELSE DetailBuckets(i)

RECURSIVE BucketSeqs(_, _, _)
(* Sequences of n buckets of the kind, for the periods first, first+1, ... *)
BucketSeqs(kind, first, n) ==
    IF n = 0 THEN { <<>> }
    ELSE { <<b>> \o rest : b \in BucketsOfKind(kind, first),
                           rest \in BucketSeqs(kind, first + 1, n - 1) }

ResultsByTimeValues ==
    UNION { BucketSeqs("shape", 1, n) \cup BucketSeqs("detail", 1, n) : n \in 0..MaxBuckets }

Responses ==
    { [ResponseMetadata |-> "ok"] }
    \cup { [ResponseMetadata |-> "ok", ResultsByTime |-> r] : r \in ResultsByTimeValues }

-----------------------------------------------------------------------------
(* export_to_csv: flattening.  A row is a dict, i.e. a sequence of          *)
(* <<column, value>> pairs in insertion order.                              *)

(* d.get(k, default) on a response dict *)
Get(d, k, default) == IF k \in DOMAIN d THEN d[k] ELSE default

(* float(amount), as the csv module then writes it (repr of the float);     *)
(* "0" stands for the default 0 of metric_data.get('Amount', 0).            *)
Float(amount) ==
    CASE amount = "12.50" -> "12.5"
      [] amount = "7"     -> "7.0"
      [] amount = "0"     -> "0.0"

(* lines 180-182 / 203-205 *)
MetricColumns(metric) ==
    << <<"Metric", metric[1]>>,
       <<"Amount", Float(Get(metric[2], "Amount", "0"))>>,
       <<"Unit", Get(metric[2], "Unit", "USD")>> >>

(* lines 178-179 / 188-189 *)
PeriodColumns(period) ==
    << <<"StartDate", period.Start>>, <<"EndDate", period.End>> >>

(* lines 176-183 *)
TotalRows(period, total) ==
    [i \in 1..Len(total) |-> PeriodColumns(period) \o MetricColumns(total[i])]

(* GroupByColumn numbering the columns from 0 *)
GroupByColumnZeroBased(position) == "GroupBy_" \o ToString(position - 1)

(* f'GroupBy_{i+1}' for the 0-based enumerate index i: position is i+1 *)
GroupByColumn(position) == "GroupBy_" \o ToString(position)

RECURSIVE Join(_, _)
(* sep.join(keys) *)
Join(sep, keys) ==
    IF keys = <<>> THEN ""
    ELSE IF Len(keys) = 1 THEN keys[1]
    ELSE keys[1] \o sep \o Join(sep, Tail(keys))

(* lines 193-197 *)
GroupKeyColumns(group, flatten) ==
    IF flatten /\ Len(Get(group, "Keys", <<>>)) > 0
    THEN [i \in 1..Len(group.Keys) |-> <<GroupByColumn(i), group.Keys[i]>>]
    ELSE << <<"GroupKeys", Join("|", Get(group, "Keys", <<>>))>> >>

(* lines 187-207: the rows of one group *)
GroupRows(period, group, flatten) ==
    LET base_row == PeriodColumns(period) \o GroupKeyColumns(group, flatten)
        metrics  == Get(group, "Metrics", <<>>)
    IN  [i \in 1..Len(metrics) |-> base_row \o MetricColumns(metrics[i])]

RECURSIVE GroupsRows(_, _, _)
(* line 186: the loop over the groups of a bucket *)
GroupsRows(period, groups, flatten) ==
    IF groups = <<>> THEN <<>>
    ELSE GroupRows(period, Head(groups), flatten)
         \o GroupsRows(period, Tail(groups), flatten)

(* BucketRows that emits the Total rows of a grouped bucket too *)
BucketRowsWithTotals(time_result, flatten) ==
    IF Len(Get(time_result, "Groups", <<>>)) = 0
    THEN TotalRows(time_result.TimePeriod, Get(time_result, "Total", <<>>))
    ELSE GroupsRows(time_result.TimePeriod, time_result.Groups, flatten)
         \o TotalRows(time_result.TimePeriod, Get(time_result, "Total", <<>>))

(* lines 170-207: the rows of one time_result *)
BucketRows(time_result, flatten) ==
    IF Len(Get(time_result, "Groups", <<>>)) = 0
    THEN TotalRows(time_result.TimePeriod, Get(time_result, "Total", <<>>))
    ELSE GroupsRows(time_result.TimePeriod, time_result.Groups, flatten)

RECURSIVE FlattenResults(_, _)
(* lines 167-207 *)
FlattenResults(results, flatten) ==
    IF results = <<>> THEN <<>>
    ELSE BucketRows(Head(results), flatten) \o FlattenResults(Tail(results), flatten)

(* line 163: report_data.get('ResultsByTime') is truthy *)
HasResults(report_data) == Len(Get(report_data, "ResultsByTime", <<>>)) > 0

-----------------------------------------------------------------------------
(* export_to_csv: csv.DictWriter over the rows *)

(* rows[0].keys() *)
Fieldnames(row) == [i \in 1..Len(row) |-> row[i][1]]

Columns(row) == { row[i][1] : i \in 1..Len(row) }

(* DictWriter._dict_to_list: restval '' fills a column the row lacks *)
CsvLine(row, fieldnames) ==
    [c \in 1..Len(fieldnames) |->
        IF fieldnames[c] \in Columns(row)
        THEN row[CHOOSE i \in 1..Len(row) : row[i][1] = fieldnames[c]][2]
        ELSE ""]

(* DictWriter._dict_to_list with extrasaction='raise': a row holding a     *)
(* column that is no fieldname raises ValueError.                           *)
HasExtraFields(row, fieldnames) ==
    \E c \in Columns(row) : \A i \in 1..Len(fieldnames) : fieldnames[i] # c

(* Index of the first row writerows rejects, 0 when it accepts them all *)
FirstRejected(rs, fieldnames) ==
    IF \E i \in 1..Len(rs) : HasExtraFields(rs[i], fieldnames)
    THEN CHOOSE i \in 1..Len(rs) :
            /\ HasExtraFields(rs[i], fieldnames)
            /\ \A j \in 1..(i - 1) : ~HasExtraFields(rs[j], fieldnames)
    ELSE 0

(* lines 211-215: header, then the rows up to the first rejected one *)
CsvLines(rs) ==
    LET fieldnames == Fieldnames(rs[1])
        bad        == FirstRejected(rs, fieldnames)
        written    == IF bad = 0 THEN Len(rs) ELSE bad - 1
    IN  <<fieldnames>> \o [i \in 1..written |-> CsvLine(rs[i], fieldnames)]

(* line 210: if rows *)
WritesFile(rs) == Len(rs) > 0

(* writerows raised ValueError *)
WriteRaises(rs) == WritesFile(rs) /\ FirstRejected(rs, Fieldnames(rs[1])) # 0

(* ExportMessage without the else branch of line 217 *)
ExportMessageNoElse(report_data, rs) ==
    IF HasResults(report_data)
    THEN "Report exported to: cost_report.csv"
    ELSE "No data to export"

(* lines 163-165, 216-218: what export_to_csv prints when it returns *)
ExportMessage(report_data, rs) ==
    IF HasResults(report_data) /\ WritesFile(rs)
    THEN "Report exported to: cost_report.csv"
    ELSE "No data to export"

(* The rows list when export_to_csv ends: empty on the early return *)
ExportRows(report_data, flatten) ==
    IF HasResults(report_data)
    THEN FlattenResults(report_data.ResultsByTime, flatten)
    ELSE <<>>

-----------------------------------------------------------------------------
(* main: lines 252-258 *)

RECURSIVE TotalGroups(_)
(* sum(len(r.get("Groups", [])) for r in data["ResultsByTime"]) *)
TotalGroups(results) ==
    IF results = <<>> THEN 0
    ELSE Len(Get(Head(results), "Groups", <<>>)) + TotalGroups(Tail(results))

SavedMessage == "Report saved to: cost_report.csv"

SummaryMessage(report_data) ==
    "Summary: " \o ToString(Len(report_data.ResultsByTime)) \o " time periods, "
    \o ToString(TotalGroups(report_data.ResultsByTime)) \o " total data points"

(* lines 252-258 *)
SavedOutput(report_data) ==
    IF HasResults(report_data)
    THEN <<SavedMessage, SummaryMessage(report_data)>>
    ELSE <<SavedMessage>>

GeneratingMessage == "Generating report from 2024-01-01 to 2024-02-01..."

ErrorMessage == "Error generating report"

(* line 262: sys.exit(1) *)
ErrorExitStatus == 1

NotExited == -1

-----------------------------------------------------------------------------
(* Inputs *)

AccountPool == <<"123456789012", "987654321098", "555555555555">>

(* The keys of ReportConfig.filters and the value list each comes with *)
FilterEntries ==
    { <<DimKey("SERVICE"), <<"Amazon Relational Database Service", "AWS Lambda">>>>,
      <<DimKey("REGION"), <<"us-east-1">>>>,
      <<DimKey("LINKED_ACCOUNT"), <<>> >>,
      <<StrKey("team"), <<"platform">>>> }

TagEntries ==
    { <<"customer", <<"CustomerA", "CustomerB">>>>,
      <<"env", <<"prod">>>>,
      <<"owner", <<>> >> }

(* A dict: entries with pairwise distinct keys *)
IsDict(entries) ==
    \A i, j \in 1..Len(entries) : i # j => entries[i][1] # entries[j][1]

Dicts(entrySet, n) == { d \in SeqsUpTo(entrySet, n) : IsDict(d) }

OptionalDicts(entrySet, n) == {None} \cup { Some(d) : d \in Dicts(entrySet, n) }

AccountLists == {None} \cup { Some(a) : a \in Prefixes(AccountPool, MaxAccounts) }

GroupByLists ==
    {None} \cup { Some(g) : g \in SeqsUpTo({ GroupByValues[i] : i \in 1..Len(GroupByValues) },
                                           MaxGroupBy) }

(* Configurations that vary in the three filter sources *)
FilterConfigs ==
    { ReportConfig(a, None, f, t) :
        a \in AccountLists,
        f \in OptionalDicts(FilterEntries, MaxFilters),
        t \in OptionalDicts(TagEntries, MaxTags) }

(* Configurations that vary in group_by and tag_filters *)
GroupByConfigs ==
    { ReportConfig(None, g, None, t) :
        g \in GroupByLists, t \in OptionalDicts(TagEntries, MaxTags) }

(* The configuration of create_sample_configs()['ec2_daily'] *)
SampleConfig ==
    ReportConfig(None, Some(<<"INSTANCE_TYPE">>),
                 Some(<< <<DimKey("SERVICE"), <<"Amazon Elastic Compute Cloud - Compute">>>> >>),
                 None)

SampleResponses ==
    { [ResponseMetadata |-> "ok", ResultsByTime |-> <<>>],
      [ResponseMetadata |-> "ok", ResultsByTime |-> <<BucketOf(1, 1, 1, 1, 0)>>] }

-----------------------------------------------------------------------------
(* The command line: strings are sequences of one-character strings *)

MaxPairs == 2

UpperToLower ==
    [ A |-> "a",
      B |-> "b",
      C |-> "c",
      D |-> "d",
      E |-> "e",
      F |-> "f",
      G |-> "g",
      H |-> "h",
      I |-> "i",
      J |-> "j",
      K |-> "k",
      L |-> "l",
      M |-> "m",
      N |-> "n",
      O |-> "o",
      P |-> "p",
      Q |-> "q",
      R |-> "r",
      S |-> "s",
      T |-> "t",
      U |-> "u",
      V |-> "v",
      W |-> "w",
      X |-> "x",
      Y |-> "y",
      Z |-> "z" ]

(* str.lower() *)
Lower(chars) ==
    [i \in 1..Len(chars) |->
        IF chars[i] \in DOMAIN UpperToLower THEN UpperToLower[chars[i]] ELSE chars[i]]

RECURSIVE Strip(_)
(* str.strip() *)
Strip(chars) ==
    IF chars = <<>> THEN <<>>
    ELSE IF Head(chars) = " " THEN Strip(Tail(chars))
    ELSE IF chars[Len(chars)] = " " THEN Strip(SubSeq(chars, 1, Len(chars) - 1))
    ELSE chars

Contains(chars, sep) == \E i \in 1..Len(chars) : chars[i] = sep

FirstIndex(chars, sep) ==
    CHOOSE i \in 1..Len(chars) :
        chars[i] = sep /\ \A j \in 1..(i - 1) : chars[j] # sep

RECURSIVE Split(_, _)
(* str.split(sep) *)
Split(chars, sep) ==
    IF ~Contains(chars, sep) THEN <<chars>>
    ELSE <<SubSeq(chars, 1, FirstIndex(chars, sep) - 1)>>
         \o Split(SubSeq(chars, FirstIndex(chars, sep) + 1, Len(chars)), sep)

(* str.split(sep, 1) on a string that contains sep *)
SplitOnce(chars, sep) ==
    << SubSeq(chars, 1, FirstIndex(chars, sep) - 1),
       SubSeq(chars, FirstIndex(chars, sep) + 1, Len(chars)) >>

RECURSIVE Text(_)
(* The string made of the characters *)
Text(chars) == IF chars = <<>> THEN "" ELSE Head(chars) \o Text(Tail(chars))

RECURSIVE JoinChars(_, _)
(* sep.join(parts) on character sequences *)
JoinChars(parts, sep) ==
    IF parts = <<>> THEN <<>>
    ELSE IF Len(parts) = 1 THEN parts[1]
    ELSE parts[1] \o <<sep>> \o JoinChars(Tail(parts), sep)

(* FilterDimension: member name -> its characters *)
FilterDimensionNames ==
    [ SERVICE |-> <<"S", "E", "R", "V", "I", "C", "E">>,
      LINKED_ACCOUNT |-> <<"L", "I", "N", "K", "E", "D", "_", "A", "C", "C", "O", "U", "N", "T">>,
      REGION |-> <<"R", "E", "G", "I", "O", "N">>,
      USAGE_TYPE |-> <<"U", "S", "A", "G", "E", "_", "T", "Y", "P", "E">>,
      INSTANCE_TYPE |-> <<"I", "N", "S", "T", "A", "N", "C", "E", "_", "T", "Y", "P", "E">>,
      OPERATION |-> <<"O", "P", "E", "R", "A", "T", "I", "O", "N">> ]

(* GroupBy: member name -> its characters *)
GroupByNames ==
    [ SERVICE |-> <<"S", "E", "R", "V", "I", "C", "E">>,
      USAGE_TYPE |-> <<"U", "S", "A", "G", "E", "_", "T", "Y", "P", "E">>,
      INSTANCE_TYPE |-> <<"I", "N", "S", "T", "A", "N", "C", "E", "_", "T", "Y", "P", "E">>,
      REGION |-> <<"R", "E", "G", "I", "O", "N">>,
      AVAILABILITY_ZONE |-> <<"A", "V", "A", "I", "L", "A", "B", "I", "L", "I", "T", "Y", "_", "Z", "O", "N", "E">>,
      OPERATION |-> <<"O", "P", "E", "R", "A", "T", "I", "O", "N">>,
      PURCHASE_TYPE |-> <<"P", "U", "R", "C", "H", "A", "S", "E", "_", "T", "Y", "P", "E">>,
      PLATFORM |-> <<"P", "L", "A", "T", "F", "O", "R", "M">>,
      TENANCY |-> <<"T", "E", "N", "A", "N", "C", "Y">> ]

(* cli.py lines 64-68: the FilterDimension whose lower-cased name is the   *)
(* lower-cased key, "" when there is none                                  *)
DimensionKeyOf(key) ==
    IF \E d \in FilterDimensionValues : Lower(FilterDimensionNames[d]) = Lower(key)
    THEN CHOOSE d \in FilterDimensionValues : Lower(FilterDimensionNames[d]) = Lower(key)
    ELSE ""

(* d[key] = value that keeps the value already stored under the key *)
DictSetKeepFirst(entries, key, value) ==
    IF \E i \in 1..Len(entries) : entries[i][1] = key
    THEN entries
    ELSE Append(entries, <<key, value>>)

(* d[key] = value on an insertion-ordered dict *)
DictSet(entries, key, value) ==
    IF \E i \in 1..Len(entries) : entries[i][1] = key
    THEN [i \in 1..Len(entries) |->
            IF entries[i][1] = key THEN <<key, value>> ELSE entries[i]]
    ELSE Append(entries, <<key, value>>)

(* cli.py line 61: [v.strip() for v in values.split(",")] *)
ValueList(values) ==
    LET parts == Split(values, ",")
    IN  [i \in 1..Len(parts) |-> Text(Strip(parts[i]))]

(* cli.py lines 56-74: the loop body for one filter_pair; acc is the pair   *)
(* <<dimension_filters, tag_filters>>                                       *)
ParseFilterPair(acc, filter_pair) ==
    IF ~Contains(filter_pair, "=") THEN acc
    ELSE LET key        == Strip(SplitOnce(filter_pair, "=")[1])
             value_list == ValueList(SplitOnce(filter_pair, "=")[2])
             dim        == DimensionKeyOf(key)
         IN  IF dim # ""
             THEN << DictSet(acc[1], DimKey(dim), value_list), acc[2] >>
             ELSE << acc[1], DictSet(acc[2], Text(key), value_list) >>

RECURSIVE ParseFilterPairs(_, _)
(* cli.py line 55: for filter_pair in filter_str.split(";") *)
ParseFilterPairs(acc, filter_pairs) ==
    IF filter_pairs = <<>> THEN acc
    ELSE ParseFilterPairs(ParseFilterPair(acc, Head(filter_pairs)), Tail(filter_pairs))

(* cli.py line 76: d if d else None *)
DictOrNone(entries) == IF Len(entries) > 0 THEN Some(entries) ELSE None

(* cli.py lines 47-76 *)
ParseFilters(filter_str) ==
    IF ~Truthy(filter_str)
    THEN [dimension_filters |-> None, tag_filters |-> None]
    ELSE LET acc == ParseFilterPairs(<< <<>>, <<>> >>, Split(filter_str.items, ";"))
         IN  [dimension_filters |-> DictOrNone(acc[1]), tag_filters |-> DictOrNone(acc[2])]

(* cli.py lines 33, 38: the GroupBy member with that lower-cased name, ""  *)
(* when the option is not valid                                            *)
GroupByOptionOf(group) ==
    IF \E g \in DOMAIN GroupByNames : Lower(GroupByNames[g]) = group
    THEN CHOOSE g \in DOMAIN GroupByNames : Lower(GroupByNames[g]) = group
    ELSE ""

(* cli.py lines 36-37: the stripped parts of the lower-cased string *)
GroupByParts(group_by_str) ==
    LET parts == Split(Lower(group_by_str.items), ",")
    IN  [i \in 1..Len(parts) |-> Strip(parts[i])]

(* cli.py lines 40-42: parse_group_by raises ValueError *)
GroupByRaises(group_by_str) ==
    /\ Truthy(group_by_str)
    /\ \E i \in 1..Len(GroupByParts(group_by_str)) :
          GroupByOptionOf(GroupByParts(group_by_str)[i]) = ""

(* cli.py lines 28-44 when nothing is raised *)
ParseGroupBy(group_by_str) ==
    IF ~Truthy(group_by_str) THEN <<>>
    ELSE [i \in 1..Len(GroupByParts(group_by_str)) |->
             GroupByOptionOf(GroupByParts(group_by_str)[i])]

(* cli.py lines 203-207 *)
LinkedAccounts(account, accounts) ==
    IF Truthy(account) THEN Some(<<Text(account.items)>>)
    ELSE IF Truthy(accounts)
    THEN Some([i \in 1..Len(Split(accounts.items, ",")) |->
                  Text(Strip(Split(accounts.items, ",")[i]))])
    ELSE None

(* cli.py lines 220-225 *)
ServiceMap ==
    [ rds    |-> "Amazon Relational Database Service",
      ec2    |-> "Amazon Elastic Compute Cloud - Compute",
      s3     |-> "Amazon Simple Storage Service",
      lambda |-> "AWS Lambda" ]

(* ServiceName that looks the argument up as written *)
ServiceNameCaseSensitive(service) ==
    IF Text(service) \in DOMAIN ServiceMap
    THEN ServiceMap[Text(service)]
    ELSE Text(service)

(* cli.py lines 227-230 *)
ServiceName(service) ==
    IF Text(Lower(service)) \in DOMAIN ServiceMap
    THEN ServiceMap[Text(Lower(service))]
    ELSE Text(service)

(* cli.py lines 219-234: the dimension filters after the service shorthand *)
WithService(dimension_filters, service) ==
    IF Truthy(service)
    THEN Some(DictSet(dimension_filters.items, DimKey("SERVICE"),
                      <<ServiceName(service.items)>>))
    ELSE dimension_filters

(* cli.py lines 202-245: the ReportConfig main builds *)
ConfigOfArgs(a) ==
    LET filters == ParseFilters(a.filters)
    IN  ReportConfig(LinkedAccounts(a.account, a.accounts),
                     Some(ParseGroupBy(a.group_by)),
                     WithService(filters.dimension_filters, a.service),
                     filters.tag_filters)

(* The 'key=values' texts the --filters strings are made of *)
PairTexts ==
    { <<"s", "e", "r", "v", "i", "c", "e", "=", "r", "d", "s", ",", "e", "c", "2">>,
      <<"S", "e", "r", "v", "i", "c", "e", "=", " ", "s", "3", " ">>,
      <<" ", "r", "e", "g", "i", "o", "n", " ", "=", "u", "s", "-", "e", "a", "s", "t", "-", "1">>,
      <<"e", "n", "v", "=", "p", "r", "o", "d", ",", "d", "e", "v">>,
      <<"E", "n", "v", "=", "q", "a">>,
      <<"e", "n", "v", "=">>,
      <<"n", "o", "v", "a", "l", "u", "e">>,
      <<"=", "x">>,
      <<"t", "e", "a", "m", "=", "a", "=", "b">>,
      <<>> }

ServiceTexts ==
    { <<"r", "d", "s">>,
      <<"R", "D", "S">>,
      <<"E", "c", "2">>,
      <<"s", "3">>,
      <<"L", "A", "M", "B", "D", "A">>,
      <<"A", "m", "a", "z", "o", "n", "S", "3">>,
      <<" ", "r", "d", "s">>,
      <<>> }

GroupByTexts ==
    { <<"s", "e", "r", "v", "i", "c", "e">>,
      <<"U", "s", "a", "g", "e", "_", "T", "y", "p", "e", ",", " ", "r", "e", "g", "i", "o", "n">>,
      <<"s", "e", "r", "v", "i", "c", "e", ",", "b", "o", "g", "u", "s">>,
      <<>> }

NoArgs ==
    [ account |-> None, accounts |-> None, group_by |-> None, filters |-> None,
      service |-> None, filter_pairs |-> <<>> ]

(* Command lines that vary in --filters and --service; filter_pairs keeps   *)
(* the texts that --filters joins with ';'                                  *)
FilterArgs ==
    { [NoArgs EXCEPT !.filters = f, !.service = sv] :
        f \in {None}, sv \in {None} \cup { Some(t) : t \in ServiceTexts } }
    \cup
    { [NoArgs EXCEPT !.filters = Some(JoinChars(ps, ";")), !.filter_pairs = ps, !.service = sv] :
        ps \in SeqsUpTo(PairTexts, MaxPairs),
        sv \in {None} \cup { Some(t) : t \in ServiceTexts } }

(* Command lines that vary in --account, --accounts and --group-by *)
GroupByArgs ==
    { [NoArgs EXCEPT !.account = a, !.accounts = as, !.group_by = g] :
        a \in {None, Some(<<"1", "2", "3", "4", "5", "6", "7", "8", "9", "0", "1", "2">>)},
        as \in {None, Some(<<"1", "1", "1", ",", " ", "2", "2", "2">>)},
        g \in {None} \cup { Some(t) : t \in GroupByTexts } }

NotParsed == [dimension_filters |-> None, tag_filters |-> None]

-----------------------------------------------------------------------------
(* The run: generate_report, export_to_csv, and main's try/except *)

InitRun ==
    /\ filter_clause = NoFilter
    /\ params = [Unsent |-> TRUE]
    /\ apiCalls = 0
    /\ apiFailed = FALSE
    /\ data = [Unset |-> TRUE]
    /\ exportCalls = 0
    /\ rows = <<>>
    /\ fileOpened = FALSE
    /\ fileLines = <<>>
    /\ stdout = <<>>
    /\ stderr = <<>>
    /\ exitStatus = NotExited

(* main calls export_to_csv(data, args.output): flatten_groups defaults to True *)
InitCallers ==
    \/ caller = "cli" /\ flatten_groups = TRUE
    \/ caller = "api" /\ flatten_groups \in BOOLEAN

(* A run starts either at main's command line (pc = "args") or, for the   *)
(* library entry points, with a ReportConfig already built (pc = "start"). *)
Init ==
    /\ InitRun
    /\ parsed = NotParsed
    /\ \/ /\ pc = "start"
          /\ args = NoArgs
          /\ config \in FilterConfigs \cup GroupByConfigs
          /\ providerResponse \in SampleResponses
          /\ caller = "cli"
          /\ flatten_groups = TRUE
       \/ /\ pc = "start"
          /\ args = NoArgs
          /\ config = SampleConfig
          /\ providerResponse \in Responses
          /\ InitCallers
       \/ /\ pc = "args"
          /\ args \in FilterArgs \cup GroupByArgs
          /\ config = ReportConfig(None, None, None, None)
          /\ providerResponse \in { r \in SampleResponses : Len(r.ResultsByTime) > 0 }
          /\ caller = "cli"
          /\ flatten_groups = TRUE

TracebackMessage == "ValueError: Invalid group by option"

(* main, lines 202-245: build the ReportConfig from the command line; a    *)
(* ValueError of parse_group_by is raised outside the try block and ends   *)
(* the process with a traceback and status 1.                              *)
ParseArgs ==
    /\ pc = "args"
    /\ IF GroupByRaises(args.group_by)
       THEN /\ pc' = "crashed"
            /\ stderr' = Append(stderr, TracebackMessage)
            /\ exitStatus' = ErrorExitStatus
            /\ UNCHANGED <<config, parsed>>
       ELSE /\ pc' = "start"
            /\ parsed' = ParseFilters(args.filters)
            /\ config' = ConfigOfArgs(args)
            /\ UNCHANGED <<stderr, exitStatus>>
    /\ UNCHANGED <<args, caller, flatten_groups, providerResponse, filter_clause, params,
                   apiCalls, apiFailed, data, exportCalls, rows, fileOpened, fileLines,
                   stdout>>

(* ReturnedReport that keeps only the metadata of the response *)
ReturnedReportStripped(response) == [ResponseMetadata |-> response.ResponseMetadata]

(* generate_report returns the response of the call *)
ReturnedReport(response) == response

(* lines 249-250 and generate_report: build the request, issue the one call; *)
(* the call answers or raises.                                              *)
Generate ==
    /\ pc = "start"
    /\ filter_clause' = BuildFilterClause(config)
    /\ params' = BuildParams(config, filter_clause')
    /\ apiCalls' = apiCalls + 1
    /\ stdout' = IF caller = "cli" THEN Append(stdout, GeneratingMessage) ELSE stdout
    /\ \/ /\ apiFailed' = FALSE
          /\ data' = ReturnedReport(providerResponse)
          /\ pc' = "generated"
       \/ /\ apiFailed' = TRUE
          /\ data' = data
          /\ pc' = "raised"
    /\ UNCHANGED <<args, parsed, caller, config, flatten_groups, providerResponse, exportCalls,
                   rows, fileOpened, fileLines, stderr, exitStatus>>

(* export_to_csv(data, output, flatten_groups) *)
Export ==
    /\ pc = "generated"
    /\ exportCalls' = exportCalls + 1
    /\ rows' = ExportRows(data, flatten_groups)
    /\ fileOpened' = WritesFile(rows')
    /\ fileLines' = IF WritesFile(rows') THEN CsvLines(rows') ELSE fileLines
    /\ IF WriteRaises(rows')
       THEN /\ pc' = "raised"
            /\ stdout' = stdout
       ELSE /\ pc' = "exported"
            /\ stdout' = Append(stdout, ExportMessage(data, rows'))
    /\ UNCHANGED <<args, parsed, caller, config, flatten_groups, providerResponse, filter_clause,
                   params, apiCalls, apiFailed, data, stderr, exitStatus>>

(* main, lines 252-258: after export_to_csv returned *)
ReportSaved ==
    /\ pc = "exported"
    /\ caller = "cli"
    /\ stdout' = stdout \o SavedOutput(data)
    /\ pc' = "done"
    /\ UNCHANGED <<args, parsed, caller, config, flatten_groups, providerResponse, filter_clause,
                   params, apiCalls, apiFailed, data, exportCalls, rows, fileOpened,
                   fileLines, stderr, exitStatus>>

(* main, lines 260-262: except Exception *)
HandleError ==
    /\ pc = "raised"
    /\ caller = "cli"
    /\ stderr' = Append(stderr, ErrorMessage)
    /\ exitStatus' = ErrorExitStatus
    /\ pc' = "exit"
    /\ UNCHANGED <<args, parsed, caller, config, flatten_groups, providerResponse, filter_clause,
                   params, apiCalls, apiFailed, data, exportCalls, rows, fileOpened,
                   fileLines, stdout>>

Next == ParseArgs \/ Generate \/ Export \/ ReportSaved \/ HandleError

Spec == Init /\ [][Next]_vars

-----------------------------------------------------------------------------
(* Vocabulary of the properties *)

Generated == pc \notin {"args", "crashed", "start"}

Exported == exportCalls = 1

ExportRaised == Exported /\ pc \in {"raised", "exit"}

Range(seq) == { seq[i] : i \in 1..Len(seq) }

(* Predicates contributed by each filter source *)
AccountPredicateCount == IF Truthy(config.linked_account_ids) THEN 1 ELSE 0

DimensionEntryIndexes ==
    { i \in 1..Len(config.filters.items) : IsFilterDimension(config.filters.items[i][1]) }

TagPredicateCount == Len(config.tag_filters.items)

EmittedPredicateCount ==
    AccountPredicateCount + Cardinality(DimensionEntryIndexes) + TagPredicateCount

(* The children of the compiled filter: none, the single leaf, or the And's list *)
CompiledPredicates ==
    IF filter_clause.node = "None" THEN <<>>
    ELSE IF filter_clause.node = "And" THEN filter_clause.children
    ELSE <<filter_clause>>

(* Linked-account predicate, then one predicate per entry of filters, then *)
(* one per entry of tag_filters                                            *)
PredicatePerEntry ==
    (IF Truthy(config.linked_account_ids)
     THEN << DimensionsPredicate("LINKED_ACCOUNT", config.linked_account_ids.items) >>
     ELSE <<>>)
    \o [i \in 1..Len(config.filters.items) |->
          DimensionsPredicate(config.filters.items[i][1].value, config.filters.items[i][2])]
    \o [i \in 1..Len(config.tag_filters.items) |->
          TagsPredicate(config.tag_filters.items[i][1], config.tag_filters.items[i][2])]

(* C1: when the three filter sources contribute n >= 2 predicates, the     *)
(* compiled filter is an And node whose children are exactly: the          *)
(* LINKED_ACCOUNT predicate (if any), one predicate per filters entry in   *)
(* mapping order, one predicate per tag_filters entry in mapping order.    *)
C1_AndOfEveryPredicate ==
    (Generated /\ Len(PredicatePerEntry) >= 2)
        => /\ filter_clause.node = "And"
           /\ CompiledPredicates = PredicatePerEntry

(* C2: every entry of filters, whatever its key, yields exactly one        *)
(* dimension predicate with its key and value list, so the dimension       *)
(* predicates that come from filters are as many as its entries.           *)
C2_OnePredicatePerFiltersEntry ==
    Generated =>
        LET fromFilters ==
                SelectSeq(SubSeq(CompiledPredicates, AccountPredicateCount + 1,
                                 Len(CompiledPredicates)),
                          LAMBDA q : q.node = "Dimensions")
        IN  /\ Len(fromFilters) = Len(config.filters.items)
            /\ \A i \in 1..Len(config.filters.items) :
                  \E j \in 1..Len(fromFilters) :
                     /\ fromFilters[j].Key = config.filters.items[i][1].value
                     /\ fromFilters[j].Values = config.filters.items[i][2]

(* Exactly one of the three filter sources is non-empty *)
OneSourceNonEmpty ==
    Cardinality({ src \in {"accounts", "filters", "tags"} :
        \/ src = "accounts" /\ Truthy(config.linked_account_ids)
        \/ src = "filters" /\ Truthy(config.filters)
        \/ src = "tags" /\ Truthy(config.tag_filters) }) = 1

SinglePredicateCase == Generated /\ OneSourceNonEmpty /\ EmittedPredicateCount = 1

NoFilterSource ==
    /\ ~Truthy(config.linked_account_ids)
    /\ ~Truthy(config.filters)
    /\ ~Truthy(config.tag_filters)

(* C4: with empty or absent filters, tag_filters and linked_account_ids    *)
(* the compiled filter is None and the request carries no Filter; the      *)
(* request carries a Filter, the compiled one, exactly when at least one   *)
(* predicate was emitted.                                                  *)
C4_FilterClauseOnlyWithPredicates ==
    Generated =>
        /\ NoFilterSource => (filter_clause = NoFilter /\ "Filter" \notin DOMAIN params)
        /\ ("Filter" \in DOMAIN params) <=> (EmittedPredicateCount >= 1)
        /\ ("Filter" \in DOMAIN params) => params.Filter = filter_clause

C4_Witness ==
    /\ Generated
    /\ NoFilterSource
    /\ ~config.filters.isNone
    /\ "Filter" \notin DOMAIN params

(* One DIMENSION grouping per element of group_by, then one TAG grouping   *)
(* per key of tag_filters                                                  *)
GroupingsInOrder ==
    LET d == Len(config.group_by)
        t == Len(config.tag_filters.items)
    IN  [i \in 1..(d + t) |->
            IF i <= d
            THEN [Type |-> "DIMENSION", Key |-> config.group_by[i]]
            ELSE [Type |-> "TAG", Key |-> config.tag_filters.items[i - d][1]]]

(* C5: the GroupBy clause of the request lists one DIMENSION grouping per  *)
(* element of group_by in input order, followed by one TAG grouping per    *)
(* key of tag_filters in mapping order; it is omitted exactly when both    *)
(* are empty.                                                              *)
C5_DimensionGroupingsBeforeTags ==
    Generated =>
        IF Len(GroupingsInOrder) = 0
        THEN "GroupBy" \notin DOMAIN params
        ELSE "GroupBy" \in DOMAIN params /\ params.GroupBy = GroupingsInOrder

C5_Witness ==
    /\ Generated
    /\ Len(config.group_by) = MaxGroupBy
    /\ Len(config.tag_filters.items) = MaxTags
    /\ "GroupBy" \in DOMAIN params
    /\ params.GroupBy[1].Type = "DIMENSION"
    /\ params.GroupBy[Len(params.GroupBy)].Type = "TAG"

-----------------------------------------------------------------------------
(* Properties of export_to_csv *)

RECURSIVE Concat(_)
Concat(seqs) == IF seqs = <<>> THEN <<>> ELSE Head(seqs) \o Concat(Tail(seqs))

RECURSIVE Sum(_)
Sum(numbers) == IF numbers = <<>> THEN 0 ELSE Head(numbers) + Sum(Tail(numbers))

Buckets == Get(data, "ResultsByTime", <<>>)

GroupsOf(bucket) == Get(bucket, "Groups", <<>>)

KeysOf(group) == Get(group, "Keys", <<>>)

(* Number of metrics of each group of the bucket, or of its Total when it  *)
(* has no group                                                            *)
BucketRowCount(bucket) ==
    IF Len(GroupsOf(bucket)) > 0
    THEN Sum([g \in 1..Len(GroupsOf(bucket)) |-> Len(Get(GroupsOf(bucket)[g], "Metrics", <<>>))])
    ELSE Len(Get(bucket, "Total", <<>>))

ExpectedRowCount == Sum([b \in 1..Len(Buckets) |-> BucketRowCount(Buckets[b])])

(* The (time period, group, metric) combinations of the bucket, groups     *)
(* first to last and the metrics of each in mapping order                  *)
BucketCombinations(bucket) ==
    IF Len(GroupsOf(bucket)) > 0
    THEN Concat([g \in 1..Len(GroupsOf(bucket)) |->
            LET metrics == Get(GroupsOf(bucket)[g], "Metrics", <<>>)
            IN  [m \in 1..Len(metrics) |->
                    [start   |-> bucket.TimePeriod.Start,
                     grouped |-> TRUE,
                     keys    |-> KeysOf(GroupsOf(bucket)[g]),
                     metric  |-> metrics[m][1]]]])
    ELSE LET total == Get(bucket, "Total", <<>>)
         IN  [m \in 1..Len(total) |->
                 [start   |-> bucket.TimePeriod.Start,
                  grouped |-> FALSE,
                  keys    |-> <<>>,
                  metric  |-> total[m][1]]]

Combinations == Concat([b \in 1..Len(Buckets) |-> BucketCombinations(Buckets[b])])

HasColumn(row, column) == \E i \in 1..Len(row) : row[i][1] = column

ValueOf(row, column) == row[CHOOSE i \in 1..Len(row) : row[i][1] = column][2]

RECURSIVE PipeJoined(_)
(* The values of the tuple separated by '|' *)
PipeJoined(keys) ==
    IF Len(keys) = 0 THEN ""
    ELSE IF Len(keys) = 1 THEN keys[1]
    ELSE PipeJoined(SubSeq(keys, 1, Len(keys) - 1)) \o "|" \o keys[Len(keys)]

(* The row carries the keys of the combination's group *)
RowOfGroup(row, combination) ==
    \/ ~combination.grouped
    \/ HasColumn(row, "GroupBy_1") /\ ValueOf(row, "GroupBy_1") = combination.keys[1]
    \/ HasColumn(row, "GroupKeys") /\ ValueOf(row, "GroupKeys") = PipeJoined(combination.keys)

(* C6: export_to_csv produces one row per (time period x group x metric)   *)
(* combination: per bucket the metrics of each of its groups, or the       *)
(* metrics of its Total when it has no group, in bucket order, then group  *)
(* order, then metric order.                                               *)
C6_OneRowPerCombination ==
    Exported =>
        LET combinations == Combinations
        IN  /\ Len(rows) = ExpectedRowCount
            /\ Len(rows) = Len(combinations)
            /\ \A i \in 1..Len(rows) :
                  /\ ValueOf(rows[i], "StartDate") = combinations[i].start
                  /\ ValueOf(rows[i], "Metric") = combinations[i].metric
                  /\ RowOfGroup(rows[i], combinations[i])

C6_Witness ==
    /\ Exported
    /\ Len(Buckets) = MaxBuckets
    /\ Len(GroupsOf(Buckets[1])) = MaxGroups
    /\ Len(GroupsOf(Buckets[2])) = 0
    /\ Len(rows) > MaxGroups

(* C7: every row export_to_csv produces has the keys of the first row, in  *)
(* the same order, whatever the response.                                  *)
C7_RowsShareFirstRowKeys ==
    Exported => \A i \in 1..Len(rows) : Fieldnames(rows[i]) = Fieldnames(rows[1])

(* The group columns of a row: those between the period and the metric *)
GroupColumnsOf(row) ==
    SelectSeq(row, LAMBDA c : c[1] \notin {"StartDate", "EndDate", "Metric", "Amount", "Unit"})

SeparateColumns(keys) == [i \in 1..Len(keys) |-> <<"GroupBy_" \o ToString(i), keys[i]>>]

JoinedColumn(keys) == << <<"GroupKeys", PipeJoined(keys)>> >>

(* C8 as stated: for a key tuple of any length K >= 0, flatten_groups      *)
(* gives exactly the columns GroupBy_1..GroupBy_K and no GroupKeys column, *)
(* and without flatten_groups exactly one GroupKeys column holding the     *)
(* values joined by '|'.                                                   *)
C8_GroupColumnsForAnyLength ==
    Exported =>
        LET combinations == Combinations
        IN  Len(rows) = Len(combinations) =>
            \A i \in 1..Len(rows) :
                combinations[i].grouped =>
                    GroupColumnsOf(rows[i]) =
                        IF flatten_groups
                        THEN SeparateColumns(combinations[i].keys)
                        ELSE JoinedColumn(combinations[i].keys)

(* C8 amended: for a key tuple of length K >= 1 with flatten_groups, the   *)
(* group columns of each row are exactly GroupBy_1..GroupBy_K by 1-based   *)
(* position; without flatten_groups, or with an empty or absent key tuple, *)
(* the only group column is GroupKeys, the values joined by '|' (the empty *)
(* string for K = 0).                                                      *)
C8_GroupColumnsForNonEmptyKeys ==
    Exported =>
        LET combinations == Combinations
        IN  Len(rows) = Len(combinations) =>
            \A i \in 1..Len(rows) :
                combinations[i].grouped =>
                    GroupColumnsOf(rows[i]) =
                        IF flatten_groups /\ Len(combinations[i].keys) >= 1
                        THEN SeparateColumns(combinations[i].keys)
                        ELSE JoinedColumn(combinations[i].keys)

C8_Witness ==
    /\ Exported
    /\ flatten_groups
    /\ LET combinations == Combinations
       IN  /\ Len(rows) = Len(combinations)
           /\ \E i \in 1..Len(rows) :
                 /\ combinations[i].grouped
                 /\ Len(combinations[i].keys) = 0
                 /\ GroupColumnsOf(rows[i]) = << <<"GroupKeys", "">> >>
           /\ \E i \in 1..Len(rows) :
                 /\ Len(combinations[i].keys) = MaxKeys
                 /\ HasColumn(rows[i], "GroupBy_" \o ToString(MaxKeys))

(* C9: when flattening yields no row, export_to_csv opens no file, raises  *)
(* no error and prints 'No data to export'; the file is written exactly    *)
(* when at least one row is produced.                                      *)
C9_NoRowsNoFile ==
    Exported =>
        /\ Len(rows) = 0 =>
              /\ ~fileOpened
              /\ fileLines = <<>>
              /\ ~ExportRaised
              /\ "No data to export" \in Range(stdout)
        /\ fileOpened <=> Len(rows) > 0
        /\ fileOpened => Len(fileLines) >= 1

C9_Witness ==
    /\ Exported
    /\ Len(Buckets) = MaxBuckets
    /\ Len(rows) = 0
    /\ ~fileOpened
    /\ "No data to export" \in Range(stdout)

-----------------------------------------------------------------------------
(* Properties of the run *)

(* C10: a run of generate_report issues exactly one call and returns its   *)
(* response unmodified; when the call fails nothing is retried, no export  *)
(* is attempted, and main ends with a non-zero exit status.                *)
C10_OneCallFailurePropagates ==
    /\ apiCalls = (IF Generated THEN 1 ELSE 0)
    /\ (Generated /\ ~apiFailed) => data = providerResponse
    /\ apiFailed =>
          /\ exportCalls = 0
          /\ ~fileOpened
          /\ pc \in {"raised", "exit"}
          /\ (caller = "cli" /\ pc = "raised") => ENABLED HandleError
          /\ pc = "exit" => (exitStatus # NotExited /\ exitStatus # 0)
    /\ (caller = "cli" /\ exitStatus = NotExited) => pc # "exit"

C10_Witness ==
    /\ apiFailed
    /\ caller = "cli"
    /\ pc = "exit"
    /\ apiCalls = 1
    /\ exitStatus = 1

-----------------------------------------------------------------------------
(* Properties of the command line *)

ArgsParsed == pc \notin {"args", "crashed"}

(* What each 'key=values' text says: whether it has an '=', the            *)
(* FilterDimension its key names ("" for none), its key and its            *)
(* comma-separated values, without surrounding blanks                      *)
PairMeanings ==
    { [text |-> "service=rds,ec2", eq |-> TRUE, dim |-> "SERVICE", key |-> "service",
       values |-> <<"rds", "ec2">>],
      [text |-> "Service= s3 ", eq |-> TRUE, dim |-> "SERVICE", key |-> "Service",
       values |-> <<"s3">>],
      [text |-> " region =us-east-1", eq |-> TRUE, dim |-> "REGION", key |-> "region",
       values |-> <<"us-east-1">>],
      [text |-> "env=prod,dev", eq |-> TRUE, dim |-> "", key |-> "env",
       values |-> <<"prod", "dev">>],
      [text |-> "Env=qa", eq |-> TRUE, dim |-> "", key |-> "Env", values |-> <<"qa">>],
      [text |-> "env=", eq |-> TRUE, dim |-> "", key |-> "env", values |-> <<"">>],
      [text |-> "novalue", eq |-> FALSE, dim |-> "", key |-> "", values |-> <<>>],
      [text |-> "=x", eq |-> TRUE, dim |-> "", key |-> "", values |-> <<"x">>],
      [text |-> "team=a=b", eq |-> TRUE, dim |-> "", key |-> "team", values |-> <<"a=b">>],
      [text |-> "", eq |-> FALSE, dim |-> "", key |-> "", values |-> <<>>] }

MeaningOf(chars) == CHOOSE m \in PairMeanings : m.text = Text(chars)

(* The meanings of the pairs of --filters, in input order *)
PairsGiven == [i \in 1..Len(args.filter_pairs) |-> MeaningOf(args.filter_pairs[i])]

InDimensionFilters(m) ==
    \E e \in Range(parsed.dimension_filters.items) :
        e[1] = DimKey(m.dim) /\ e[2] = m.values

InTagFilters(m) ==
    \E e \in Range(parsed.tag_filters.items) : e[1] = m.key /\ e[2] = m.values

(* A mapping is None exactly when it has no entry *)
EmptyMappingsAreNone ==
    /\ parsed.dimension_filters.isNone <=> Len(parsed.dimension_filters.items) = 0
    /\ parsed.tag_filters.isNone <=> Len(parsed.tag_filters.items) = 0

(* C11 as stated: every 'key=values' pair of the string is found, with its *)
(* value list in order, in the dimension filters when its key is a         *)
(* FilterDimension name (case-insensitively) and in the tag filters under  *)
(* its key otherwise: every pair is in exactly one of the two mappings,    *)
(* and a mapping with no entries is None.                                  *)
C11_EveryPairInOneMapping ==
    ArgsParsed =>
        LET pairs == PairsGiven
        IN  /\ \A i \in 1..Len(pairs) :
                  pairs[i].eq =>
                      IF pairs[i].dim # ""
                      THEN InDimensionFilters(pairs[i]) /\ ~InTagFilters(pairs[i])
                      ELSE InTagFilters(pairs[i])
            /\ EmptyMappingsAreNone

SameKey(m, n) == m.dim = n.dim /\ (m.dim = "" => m.key = n.key)

(* The pair is the last 'key=values' pair with its key *)
IsLastOfKey(pairs, i) ==
    \A j \in (i + 1)..Len(pairs) : ~(pairs[j].eq /\ SameKey(pairs[i], pairs[j]))

(* C11 amended: every key of a 'key=values' pair is in exactly one         *)
(* mapping, the dimension filters when it is a FilterDimension name        *)
(* (case-insensitively) and the tag filters under the key as written       *)
(* otherwise, with the value list of the last pair that has this key; each *)
(* mapping has one entry per distinct key, and a mapping with no entries   *)
(* is None.                                                                *)
C11_LastPairOfEachKey ==
    ArgsParsed =>
        LET pairs == PairsGiven
            last  == { i \in 1..Len(pairs) : pairs[i].eq /\ IsLastOfKey(pairs, i) }
        IN  /\ \A i \in last :
                  IF pairs[i].dim # ""
                  THEN InDimensionFilters(pairs[i]) /\ ~InTagFilters(pairs[i])
                  ELSE InTagFilters(pairs[i])
            /\ Len(parsed.dimension_filters.items)
                  = Cardinality({ i \in last : pairs[i].dim # "" })
            /\ Len(parsed.tag_filters.items)
                  = Cardinality({ i \in last : pairs[i].dim = "" })
            /\ EmptyMappingsAreNone

C11_Witness ==
    /\ ArgsParsed
    /\ Len(args.filter_pairs) = 2
    /\ Text(args.filter_pairs[1]) = "env=prod,dev"
    /\ Text(args.filter_pairs[2]) = "env="
    /\ parsed.dimension_filters = None
    /\ parsed.tag_filters = Some(<< <<"env", <<"">>>> >>)

(* The canonical name of a shorthand, else the argument unchanged *)
ExpectedServiceName(text) ==
    CASE text \in {"rds", "RDS"} -> "Amazon Relational Database Service"
      [] text = "Ec2"            -> "Amazon Elastic Compute Cloud - Compute"
      [] text = "s3"             -> "Amazon Simple Storage Service"
      [] text = "LAMBDA"         -> "AWS Lambda"
      [] OTHER                   -> text

ServiceGiven == ArgsParsed /\ Truthy(args.service)

OtherDimensionEntries(mapping) ==
    { e \in Range(mapping.items) : e[1] # DimKey("SERVICE") }

C13_SavedOnlyIfWritten ==
    SavedMessage \in Range(stdout) => fileOpened

====
